---- MODULE Spec2Model ----
(***************************************************************************)
(* parsemon: the immutable input streams (stream.py) and the continuation- *)
(* passing parser combinators driven by a trampoline (internals.py).       *)
(*                                                                         *)
(* Text is a sequence of one-character strings.  A parser is a record      *)
(* naming the closure that Parser(function) wraps; a continuation is the   *)
(* chain of closures reachable through the captured cont, innermost      *)
(* first, and the empty chain is run's lambda x: Result(x).              *)
(***************************************************************************)
EXTENDS Integers, Sequences, FiniteSets, TLC

VARIABLES prog, focus, doc, stream_implementation, ctl, applied, maxDepth,
          sdoc, ss, cs, outS, outC, lastOp, preLen, nops

runVars == <<prog, focus, doc, stream_implementation, ctl, applied, maxDepth>>
streamVars == <<sdoc, ss, cs, outS, outC, lastOp, preLen, nops>>
vars == <<prog, focus, doc, stream_implementation, ctl, applied, maxDepth,
          sdoc, ss, cs, outS, outC, lastOp, preLen, nops>>

(* ------------------------------ bounds --------------------------------- *)
MaxDocLen == 2
MaxWordLen == 2
MaxN == 3
MaxChain == 3
MaxOps == 4

Alphabet == {"a", "b", "c"}
Strings(n) == UNION {[1..m -> Alphabet] : m \in 0..n}

(* Python's None, the sentinel of deque.py, and an escaping exception *)
None == "None"
deque_empty == "deque_empty"
IndexError == "IndexError"

Max(x, y) == IF x >= y THEN x ELSE y

(* ------------------------------ deque.Stack ----------------------------- *)
(* A persistent stack, top first.                                           *)
Stack == <<>>
Stack_push(stack, value) == <<value>> \o stack
Stack_top(stack) == IF stack = <<>> THEN deque_empty ELSE Head(stack)
Stack_pop(stack) == IF stack = <<>> THEN stack ELSE Tail(stack)
Stack_empty(stack) == stack = <<>>
Stack_iter(stack) == stack

(* ------------------------------ stream.py ------------------------------- *)
RECURSIVE reduce_push(_, _, _)
reduce_push(content, i, stack) ==
    IF i = 0 THEN stack
    ELSE reduce_push(content, i - 1, Stack_push(stack, content[i]))

CharacterStream_from_string(content) ==
    [impl |-> "CharacterStream",
     content |-> reduce_push(content, Len(content), Stack),
     length |-> Len(content)]

CharacterStream_next(self) ==
    LET top_value == Stack_top(self.content)
    IN IF top_value = deque_empty THEN None ELSE top_value

CharacterStream_read(self) ==
    <<CharacterStream_next(self),
      [self EXCEPT !.content = Stack_pop(self.content),
                   !.length = IF Stack_empty(self.content)
                              THEN self.length
                              ELSE self.length - 1]>>

CharacterStream_len(self) == self.length

CharacterStream_to_string(self) == Stack_iter(self.content)

StringStream_from_string(content) ==
    [impl |-> "StringStream",
     content |-> content,
     position |-> 0,
     length |-> Len(content)]

StringStream_len(self) == self.length - self.position

StringStream_to_string(self) ==
    SubSeq(self.content, self.position + 1, Len(self.content))

(* content[position] of a Python sequence: IndexError past its end *)
Index(content, position) ==
    IF position < Len(content) THEN content[position + 1] ELSE IndexError

StringStream_read(self) ==
    IF StringStream_len(self) # 0
    THEN <<Index(self.content, self.position),
           [self EXCEPT !.position = self.position + 1]>>
    ELSE <<None, self>>

StringStream_next(self) ==
    IF self.content # <<>>
    THEN Index(self.content, self.position)
    ELSE None

(* dispatch on the stream implementation handed to run *)
Impls == {"StringStream", "CharacterStream"}
from_string(impl, content) ==
    IF impl = "StringStream" THEN StringStream_from_string(content)
    ELSE CharacterStream_from_string(content)
len(stream) ==
    IF stream.impl = "StringStream" THEN StringStream_len(stream)
    ELSE CharacterStream_len(stream)
read(stream) ==
    IF stream.impl = "StringStream" THEN StringStream_read(stream)
    ELSE CharacterStream_read(stream)
next(stream) ==
    IF stream.impl = "StringStream" THEN StringStream_next(stream)
    ELSE CharacterStream_next(stream)
to_string(stream) ==
    IF stream.impl = "StringStream" THEN StringStream_to_string(stream)
    ELSE CharacterStream_to_string(stream)

(* --------------------- internals.py: parse results ---------------------- *)
Success(value, stream) == [k |-> "Success", value |-> value, stream |-> stream]
Failure(message, stream) == [k |-> "Failure", message |-> message, stream |-> stream]
Failures(failures) == [k |-> "Failures", failures |-> failures]

is_failure(result) == result.k # "Success"

(* the transformations handed to fmap *)
Mappings == {[k |-> "dup"], [k |-> "mark"]}
ApplyMapping(mapping, value) ==
    IF mapping.k = "dup" THEN value \o value ELSE <<"c">> \o value

Success_map_value(self, mapping) ==
    [self EXCEPT !.value = ApplyMapping(mapping, self.value)]
Failure_map_value(self, mapping) == self
Failures_map_value(self, mapping) ==
    [self EXCEPT !.failures =
        [i \in DOMAIN self.failures |-> Failure_map_value(self.failures[i], mapping)]]
map_value(result, mapping) ==
    CASE result.k = "Success" -> Success_map_value(result, mapping)
      [] result.k = "Failure" -> Failure_map_value(result, mapping)
      [] OTHER -> Failures_map_value(result, mapping)

(* map_stream is only ever called with lambda _: stream *)
Success_map_stream(self, stream) == [self EXCEPT !.stream = stream]
Failure_map_stream(self, stream) == [self EXCEPT !.stream = stream]
Failures_map_stream(self, stream) ==
    [self EXCEPT !.failures =
        [i \in DOMAIN self.failures |-> Failure_map_stream(self.failures[i], stream)]]
map_stream(result, stream) ==
    CASE result.k = "Success" -> Success_map_stream(result, stream)
      [] result.k = "Failure" -> Failure_map_stream(result, stream)
      [] OTHER -> Failures_map_stream(result, stream)

(* variant: self is put behind the failures of other *)
Failure_add_appends(self, other) ==
    IF other.k = "Failures"
    THEN [other EXCEPT !.failures = other.failures \o <<self>>]
    ELSE Failures(<<self, other>>)

Failure_add(self, other) ==
    IF other.k = "Failures"
    THEN [other EXCEPT !.failures = <<self>> \o other.failures]
    ELSE Failures(<<self, other>>)
Failures_add(self, other) ==
    LET other_failures == IF other.k = "Failures" THEN other.failures ELSE <<other>>
    IN Failures(self.failures \o other_failures)
add(self, other) ==
    IF self.k = "Failures" THEN Failures_add(self, other) ELSE Failure_add(self, other)

Failure_last_stream(self) == self.stream
Failures_last_stream(self) ==
    IF self.failures # <<>> THEN self.failures[Len(self.failures)].stream ELSE None
last_stream(result) ==
    IF result.k = "Failures" THEN Failures_last_stream(result)
    ELSE Failure_last_stream(result)

(* the formatted messages, kept as format and arguments *)
MsgFail(msg) == [kind |-> "fail", msg |-> msg]
MsgCharacterEnd == [kind |-> "Expected character but found end of string"]
MsgLiteralEnd(expected) ==
    [kind |-> "Expected {expected} but found end of string", expected |-> expected]
MsgLiteralFound(expected, actual) ==
    [kind |-> "Expected {expected} but found {actual}.",
     expected |-> expected, actual |-> actual]
MsgOneOfEnd(expected) ==
    [kind |-> "Expected on of {expected} but found end of string", expected |-> expected]
MsgOneOfFound(expected, actual) ==
    [kind |-> "Expected one of {expected} but found {actual}",
     expected |-> expected, actual |-> actual]
MsgNoneOfEnd(chars) ==
    [kind |-> "Expected any char except {forbidden} but found endof string",
     expected |-> chars]
MsgNoneOfFound(chars, actual) ==
    [kind |-> "Expected anything except one of {forbidden} butfound {actual}",
     expected |-> chars, actual |-> actual]

(* ------------------------- trampoline steps ----------------------------- *)
(* Call(parser.function, stream, cont), Call(cont, result) and Result(x)    *)
CallP(parser, stream, cont) ==
    [k |-> "CallP", parser |-> parser, stream |-> stream, cont |-> cont]
CallK(cont, result) == [k |-> "CallK", cont |-> cont, result |-> result]
Result(value) == [k |-> "Result", value |-> value]

(* what one native invocation made by the trampoline loop hands back: the   *)
(* step it returned, the bindings it applied on the way, and how many       *)
(* parser functions or continuations were on the native stack at its peak   *)
Ret(step) == [next |-> step, applied |-> <<>>, depth |-> 1]

(* ------------------------- parsers as values ---------------------------- *)
unit(value) == [k |-> "unit", value |-> value]
fail(msg) == [k |-> "fail", msg |-> msg]
character(n) == [k |-> "character", n |-> n]
literal(expected) == [k |-> "literal", expected |-> expected]
one_of(expected) == [k |-> "one_of", expected |-> expected]
none_of(chars) == [k |-> "none_of", expected |-> chars]
Parser_bind(self, binding) == [k |-> "bind", a |-> self, binding |-> binding]
Parser_or(self, other) == [k |-> "or", a |-> self, b |-> other]
fmap(mapping, parser) == [k |-> "fmap", mapping |-> mapping, a |-> parser]
look_ahead(parser) == [k |-> "look_ahead", a |-> parser]
try_parser(parser) == [k |-> "try_parser", a |-> parser]

(* the functions handed to bind: v -> unit(v), v -> literal(v),             *)
(* v -> q (sequencing that drops v), and v -> bind(f(v), g)                 *)
ToUnit == [k |-> "unit"]
ToLiteral == [k |-> "literal"]
Then(parser) == [k |-> "then", parser |-> parser]
Compose(f, g) == [k |-> "compose", f |-> f, g |-> g]

RECURSIVE ApplyBinding(_, _)
ApplyBinding(binding, value) ==
    CASE binding.k = "unit" -> unit(value)
      [] binding.k = "literal" -> literal(value)
      [] binding.k = "then" -> binding.parser
      [] OTHER -> Parser_bind(ApplyBinding(binding.f, value), binding.g)

In(c, text) == \E i \in DOMAIN text : text[i] = c

(* ------------------------ the parser functions -------------------------- *)
RECURSIVE InvokeParser(_, _, _)

unit_parser(value, stream, cont) == Ret(CallK(cont, Success(value, stream)))

fail_parser(msg, stream, cont) == Ret(CallK(cont, Failure(MsgFail(msg), stream)))

RECURSIVE character_loop(_, _, _, _)
character_loop(i, n, stream, result) ==
    IF i >= n THEN Success(result, stream)
    ELSE IF len(stream) = 0 THEN Failure(MsgCharacterEnd, stream)
    ELSE LET r == read(stream)
         IN character_loop(i + 1, n, r[2], Append(result, r[1]))
(* variant: exhaustion is reported where the parser started *)
character_parser_fails_at_start(n, stream, cont) ==
    LET result == character_loop(0, n, stream, <<>>)
    IN Ret(CallK(cont, IF is_failure(result)
                       THEN Failure(MsgCharacterEnd, stream)
                       ELSE result))

character_parser(n, stream, cont) ==
    Ret(CallK(cont, character_loop(0, n, stream, <<>>)))

(* variant: a failure carries the stream after the offending read *)
RECURSIVE literal_loop_fails_after_read(_, _, _, _)
literal_loop_fails_after_read(i, expected, stream, result) ==
    IF i > Len(expected) THEN Success(result, stream)
    ELSE LET r == read(stream)
             next_char == r[1]
         IN IF next_char = None
            THEN Failure(MsgLiteralEnd(expected), r[2])
            ELSE IF expected[i] = next_char
            THEN literal_loop_fails_after_read(i + 1, expected, r[2],
                                               Append(result, expected[i]))
            ELSE Failure(MsgLiteralFound(expected, Append(result, next_char)), r[2])

RECURSIVE literal_loop(_, _, _, _)
literal_loop(i, expected, stream, result) ==
    IF i > Len(expected) THEN Success(result, stream)
    ELSE LET old_stream == stream
             r == read(stream)
             next_char == r[1]
         IN IF next_char = None
            THEN Failure(MsgLiteralEnd(expected), old_stream)
            ELSE IF expected[i] = next_char
            THEN literal_loop(i + 1, expected, r[2], Append(result, expected[i]))
            ELSE Failure(MsgLiteralFound(expected, Append(result, next_char)),
                         old_stream)
literal_parser(expected, stream, cont) ==
    Ret(CallK(cont, literal_loop(1, expected, stream, <<>>)))

none_of_parser(chars, stream, cont) ==
    Ret(CallK(cont,
        IF len(stream) = 0 THEN Failure(MsgNoneOfEnd(chars), stream)
        ELSE IF ~In(next(stream), chars)
        THEN LET r == read(stream) IN Success(<<r[1]>>, r[2])
        ELSE Failure(MsgNoneOfFound(chars, next(stream)), stream)))

one_of_parser(expected, stream, cont) ==
    Ret(CallK(cont,
        IF len(stream) = 0 THEN Failure(MsgOneOfEnd(expected), stream)
        ELSE IF In(next(stream), expected)
        THEN LET r == read(stream) IN Success(<<r[1]>>, r[2])
        ELSE Failure(MsgOneOfFound(expected, next(stream)), stream)))

(* variant: self.function is invoked natively instead of being deferred *)
bind_function_native(self, binding, stream, cont) ==
    LET r == InvokeParser(self, stream,
                          <<[k |-> "bind", binding |-> binding]>> \o cont)
    IN [r EXCEPT !.depth = r.depth + 1]

bind_function(self, binding, stream, cont) ==
    Ret(CallP(self, stream, <<[k |-> "bind", binding |-> binding]>> \o cont))

(* variant: the parser made by binding is never run *)
bind_continuation_skips_binding(binding, cont, first_result) ==
    Ret(CallK(cont, first_result))

bind_continuation(binding, cont, first_result) ==
    IF is_failure(first_result)
    THEN Ret(CallK(cont, first_result))
    ELSE [next |-> CallP(ApplyBinding(binding, first_result.value),
                         first_result.stream, cont),
          applied |-> <<[binding |-> binding, value |-> first_result.value]>>,
          depth |-> 1]

or_parser(self, other, stream, cont) ==
    Ret(CallP(self, stream,
              <<[k |-> "or", other |-> other, stream |-> stream]>> \o cont))

or_continuation(other, stream, cont, result_of_self) ==
    IF is_failure(result_of_self) /\ len(last_stream(result_of_self)) = len(stream)
    THEN Ret(CallP(other, stream,
                   <<[k |-> "or_other", result_of_self |-> result_of_self]>> \o cont))
    ELSE Ret(CallK(cont, result_of_self))

or_other_lambda(result_of_self, cont, result_of_other) ==
    IF is_failure(result_of_other)
    THEN Ret(CallK(cont, add(result_of_self, result_of_other)))
    ELSE Ret(CallK(cont, result_of_other))

run_lambda(x) == Ret(Result(x))

look_ahead_function(parser, stream, cont) ==
    Ret(CallP(parser, stream, <<[k |-> "look_ahead", stream |-> stream]>> \o cont))

(* variant: the stream is put back on failure as well *)
look_ahead_continuation_always_rewinds(stream, cont, result) ==
    Ret(CallK(cont, map_stream(result, stream)))

look_ahead_continuation(stream, cont, result) ==
    IF is_failure(result)
    THEN Ret(CallK(cont, result))
    ELSE Ret(CallK(cont, map_stream(result, stream)))

try_parser_function(parser, stream, cont) ==
    Ret(CallP(parser, stream, <<[k |-> "try_parser", stream |-> stream]>> \o cont))

(* variant: the failure keeps the position at which parser failed *)
try_parser_continuation_keeps_position(stream, cont, result) ==
    Ret(CallK(cont, result))

try_parser_continuation(stream, cont, result) ==
    IF is_failure(result)
    THEN Ret(CallK(cont, map_stream(result, stream)))
    ELSE Ret(CallK(cont, result))

fmap_mapped_parser(mapping, parser, stream, cont) ==
    Ret(CallP(parser, stream, <<[k |-> "fmap", mapping |-> mapping]>> \o cont))

fmap_continuation(mapping, cont, parsing_result) ==
    Ret(CallK(cont, map_value(parsing_result, mapping)))

(* ------------------- invoking the target of a Call ---------------------- *)
InvokeParser(p, stream, cont) ==
    CASE p.k = "unit" -> unit_parser(p.value, stream, cont)
      [] p.k = "fail" -> fail_parser(p.msg, stream, cont)
      [] p.k = "character" -> character_parser(p.n, stream, cont)
      [] p.k = "literal" -> literal_parser(p.expected, stream, cont)
      [] p.k = "one_of" -> one_of_parser(p.expected, stream, cont)
      [] p.k = "none_of" -> none_of_parser(p.expected, stream, cont)
      [] p.k = "bind" -> bind_function(p.a, p.binding, stream, cont)
      [] p.k = "or" -> or_parser(p.a, p.b, stream, cont)
      [] p.k = "fmap" -> fmap_mapped_parser(p.mapping, p.a, stream, cont)
      [] p.k = "look_ahead" -> look_ahead_function(p.a, stream, cont)
      [] p.k = "try_parser" -> try_parser_function(p.a, stream, cont)

InvokeContinuation(cont, result) ==
    IF cont = <<>> THEN run_lambda(result)
    ELSE LET c == Head(cont)
             outer == Tail(cont)
         IN CASE c.k = "bind" -> bind_continuation(c.binding, outer, result)
              [] c.k = "or" -> or_continuation(c.other, c.stream, outer, result)
              [] c.k = "or_other" -> or_other_lambda(c.result_of_self, outer, result)
              [] c.k = "look_ahead" -> look_ahead_continuation(c.stream, outer, result)
              [] c.k = "try_parser" -> try_parser_continuation(c.stream, outer, result)
              [] c.k = "fmap" -> fmap_continuation(c.mapping, outer, result)

Invoke(step) ==
    IF step.k = "CallP" THEN InvokeParser(step.parser, step.stream, step.cont)
    ELSE InvokeContinuation(step.cont, step.result)

(* with_trampoline: substitute the step by what invoking its target         *)
(* returns until a Result is reached                                        *)
RECURSIVE trampoline(_, _, _)
trampoline(step, log, depth) ==
    IF step.k = "Result"
    THEN [value |-> step.value, applied |-> log, depth |-> depth]
    ELSE LET r == Invoke(step)
         IN trampoline(r.next, log \o r.applied, Max(depth, r.depth))

with_trampoline(parser, stream) == trampoline(CallP(parser, stream, <<>>), <<>>, 0)

(* ---------------------- the parsers that are run ------------------------ *)
Leaves ==
    {unit(v) : v \in Strings(1)} \cup {fail("X"), fail("Y")}
    \cup {character(n) : n \in 0..MaxN}
    \cup {literal(w) : w \in Strings(MaxWordLen)}
    \cup {one_of(w) : w \in {<<"a">>, <<"a", "b">>}}
    \cup {none_of(w) : w \in {<<"a">>, <<"a", "b">>}}

CoreLeaves ==
    {unit(<<"a">>), fail("X"), fail("Y"), character(1), character(2),
     literal(<<"a">>), literal(<<"a", "b">>), literal(<<"a", "c">>)}

FailingLeaves ==
    {fail("X"), fail("Y"), literal(<<"b">>), character(1),
     try_parser(literal(<<"a", "b">>))}

Bindings ==
    {ToUnit, ToLiteral, Then(fail("X")), Then(literal(<<"b">>)), Then(character(1))}

Choices == {Parser_or(a, b) : a \in CoreLeaves, b \in CoreLeaves}

Binds == {Parser_bind(a, f) : a \in CoreLeaves, f \in Bindings}

Sequenced ==
    {Parser_bind(a, Then(b)) :
        a \in {character(1), literal(<<"a">>)},
        b \in CoreLeaves \cup {Parser_or(fail("X"), fail("Y")),
                               Parser_or(literal(<<"b">>), literal(<<"c">>))}}

Wrapped ==
    LET inner == CoreLeaves \cup Sequenced \cup Choices
    IN {look_ahead(p) : p \in inner} \cup {try_parser(p) : p \in inner}
       \cup {fmap(g, p) : g \in Mappings, p \in inner}

TriedChoices ==
    {Parser_or(try_parser(p), q) :
        p \in CoreLeaves \cup Sequenced,
        q \in {unit(<<"a">>), fail("Y"), character(1), literal(<<"a", "c">>)}}

NestedChoices ==
    {Parser_or(Parser_or(a, b), c) : a \in FailingLeaves, b \in FailingLeaves,
                                     c \in FailingLeaves}
    \cup {Parser_or(a, Parser_or(b, c)) : a \in FailingLeaves, b \in FailingLeaves,
                                          c \in FailingLeaves}
    \cup {Parser_or(Parser_or(a, b), Parser_or(c, d)) :
             a \in {fail("X"), literal(<<"b">>)}, b \in {fail("Y"), character(1)},
             c \in {fail("X"), fail("Y"), literal(<<"b">>)},
             d \in {fail("X"), fail("Y"), literal(<<"b">>)}}

NestedBinds ==
    {Parser_bind(Parser_bind(p, f), g) :
        p \in {unit(<<"a">>), fail("X"), character(1), literal(<<"a">>)},
        f \in Bindings, g \in Bindings}

Programs ==
    Leaves \cup Choices \cup Binds \cup Sequenced \cup Wrapped
    \cup TriedChoices \cup NestedChoices \cup NestedBinds

(* chains of n binds or n alternatives over one primitive, nested to the    *)
(* left and to the right                                                    *)
RECURSIVE BindLeft(_)
BindLeft(n) ==
    IF n = 0 THEN literal(<<"a">>) ELSE Parser_bind(BindLeft(n - 1), ToLiteral)
RECURSIVE BindRight(_)
BindRight(n) ==
    IF n = 0 THEN literal(<<"a">>)
    ELSE Parser_bind(literal(<<"a">>), Then(BindRight(n - 1)))
RECURSIVE ChoiceLeft(_)
ChoiceLeft(n) ==
    IF n = 0 THEN literal(<<"b">>) ELSE Parser_or(ChoiceLeft(n - 1), literal(<<"a">>))
RECURSIVE ChoiceRight(_)
ChoiceRight(n) ==
    IF n = 0 THEN literal(<<"a">>) ELSE Parser_or(fail("X"), ChoiceRight(n - 1))

Chains ==
    LET plain == UNION {{BindLeft(n), BindRight(n), ChoiceLeft(n), ChoiceRight(n)} :
                        n \in 0..MaxChain}
    IN plain \cup {look_ahead(p) : p \in plain} \cup {try_parser(p) : p \in plain}
       \cup {fmap([k |-> "dup"], p) : p \in plain}

(* ------------------------------ the runs -------------------------------- *)
StreamIdle ==
    /\ sdoc = <<>>
    /\ ss = StringStream_from_string(<<>>)
    /\ cs = CharacterStream_from_string(<<>>)
    /\ outS = None
    /\ outC = None
    /\ lastOp = "none"
    /\ preLen = 0
    /\ nops = 0

(* the parser under study is run from the start of the document, or after  *)
(* one element of it has been consumed by a preceding character(1)          *)
After(parser) == Parser_bind(character(1), Then(parser))

(* Parser.run: the first deferred call and lambda x: Result(x) *)
RunInit(parsers, inputs) ==
    /\ focus \in parsers
    /\ doc \in inputs
    /\ prog \in {focus} \cup (IF doc # <<>> THEN {After(focus)} ELSE {})
    /\ stream_implementation \in Impls
    /\ ctl = CallP(prog, from_string(stream_implementation, doc), <<>>)
    /\ applied = <<>>
    /\ maxDepth = 0

Init == RunInit(Programs, Strings(MaxDocLen)) /\ StreamIdle

ChainInit ==
    /\ RunInit(Chains \cup Leaves, [1..MaxChain + 1 -> {"a"}] \cup Strings(MaxDocLen))
    /\ StreamIdle

Advance(r) ==
    /\ ctl' = r.next
    /\ applied' = applied \o r.applied
    /\ maxDepth' = Max(maxDepth, r.depth)
    /\ UNCHANGED <<prog, focus, doc, stream_implementation>>
    /\ UNCHANGED streamVars

(* one turn of the trampoline loop on a deferred call of a parser function *)
CallParser ==
    /\ ctl.k = "CallP"
    /\ Advance(Invoke(ctl))

(* one turn of the trampoline loop on a deferred call of a continuation *)
CallContinuation ==
    /\ ctl.k = "CallK"
    /\ Advance(Invoke(ctl))

Next == CallParser \/ CallContinuation

Spec == Init /\ [][Next]_vars

(* the loop runs on: it is the only thing the thread does *)
ChainSpec == ChainInit /\ [][Next]_vars /\ WF_vars(Next)

(* ----------------------- the streams on their own ----------------------- *)
RunIdle ==
    /\ prog = unit(<<>>)
    /\ focus = unit(<<>>)
    /\ doc = <<>>
    /\ stream_implementation = "StringStream"
    /\ ctl = Result(Success(<<>>, StringStream_from_string(<<>>)))
    /\ applied = <<>>
    /\ maxDepth = 0

StreamInit ==
    /\ sdoc \in Strings(MaxDocLen)
    /\ ss = StringStream_from_string(sdoc)
    /\ cs = CharacterStream_from_string(sdoc)
    /\ outS = None
    /\ outC = None
    /\ lastOp = "none"
    /\ preLen = 0
    /\ nops = 0
    /\ RunIdle

(* read() on both streams made from the same document *)
Read ==
    /\ nops < MaxOps
    /\ LET rs == StringStream_read(ss)
           rc == CharacterStream_read(cs)
       IN /\ outS' = rs[1]
          /\ ss' = rs[2]
          /\ outC' = rc[1]
          /\ cs' = rc[2]
    /\ lastOp' = "read"
    /\ preLen' = StringStream_len(ss)
    /\ nops' = nops + 1
    /\ UNCHANGED sdoc
    /\ UNCHANGED runVars

(* next(), the peek, on both streams *)
Peek ==
    /\ nops < MaxOps
    /\ outS' = StringStream_next(ss)
    /\ outC' = CharacterStream_next(cs)
    /\ lastOp' = "next"
    /\ preLen' = StringStream_len(ss)
    /\ nops' = nops + 1
    /\ UNCHANGED <<sdoc, ss, cs>>
    /\ UNCHANGED runVars

StreamNext == Read \/ Peek

StreamSpec == StreamInit /\ [][StreamNext]_vars

(* ======================================================================= *)
(*                              the claims                                 *)
(* ======================================================================= *)
Done == ctl.k = "Result"
StartStream == from_string(stream_implementation, doc)
(* where the parser under study starts *)
FocusStream == IF prog = focus THEN StartStream ELSE read(StartStream)[2]
(* the bindings applied while the parser under study ran *)
FocusApplied == IF prog = focus THEN applied ELSE Tail(applied)
Outcome(parser, stream) == with_trampoline(parser, stream).value
FailureList(result) == IF result.k = "Failures" THEN result.failures ELSE <<result>>
Messages(result) ==
    [i \in DOMAIN FailureList(result) |-> FailureList(result)[i].message]
AllAt(result, stream) ==
    \A i \in DOMAIN FailureList(result) : FailureList(result)[i].stream = stream
Rest(text, n) == SubSeq(text, n + 1, Len(text))
RECURSIVE CommonPrefix(_, _)
CommonPrefix(u, w) ==
    IF u = <<>> \/ w = <<>> \/ Head(u) # Head(w) THEN 0
    ELSE 1 + CommonPrefix(Tail(u), Tail(w))

(* C1: choice(a, b) backtracks fully: whenever a fails on s, however much  *)
(* it consumed before failing, b is run from s; so when b succeeds on s the *)
(* choice yields b's result, as in choice(literal("ab"), literal("ac")) on  *)
(* "ac".                                                                    *)
C1_ChoiceBacktracksFully ==
    (Done /\ focus.k = "or") =>
        LET s == FocusStream
            ra == Outcome(focus.a, s)
            rb == Outcome(focus.b, s)
        IN (is_failure(ra) /\ ~is_failure(rb)) => ctl.value = rb

(* C3: read() and next() on an exhausted stream of either implementation   *)
(* return the end marker None, never an error, and the stream stays         *)
(* exhausted.                                                               *)
C3_EndMarkerForever ==
    (lastOp # "none" /\ preLen = 0) =>
        /\ outS = None
        /\ outC = None
        /\ StringStream_len(ss) = 0
        /\ CharacterStream_len(cs) = 0

(* C4: StringStream and CharacterStream made from one document return the  *)
(* same elements and report the same remaining length and the same          *)
(* to_string() text after every sequence of read() and next().              *)
C4_StreamsBehaveIdentically ==
    /\ outS = outC
    /\ StringStream_len(ss) = CharacterStream_len(cs)
    /\ StringStream_to_string(ss) = CharacterStream_to_string(cs)

(* C5: try_parser(p) yields p's success unchanged; when p fails on s it     *)
(* fails with the same messages, every failure positioned at s, so that     *)
(* choice(try_parser(p), q) goes on to run q from s.                        *)
C5_TryParserRewinds ==
    /\ (Done /\ focus.k = "try_parser") =>
          LET s == FocusStream
              r == Outcome(focus.a, s)
          IN IF is_failure(r)
             THEN /\ is_failure(ctl.value)
                  /\ Messages(ctl.value) = Messages(r)
                  /\ AllAt(ctl.value, s)
             ELSE ctl.value = r
    /\ (Done /\ focus.k = "or" /\ focus.a.k = "try_parser") =>
          LET s == FocusStream
              r == Outcome(focus.a.a, s)
              rq == Outcome(focus.b, s)
          IN is_failure(r) =>
                IF is_failure(rq)
                THEN /\ is_failure(ctl.value)
                     /\ Messages(ctl.value) = Messages(r) \o Messages(rq)
                ELSE ctl.value = rq

(* p consumed input before failing, and the alternative ran from s *)
C5_Witness ==
    /\ Done
    /\ focus.k = "or"
    /\ focus.a.k = "try_parser"
    /\ prog # focus
    /\ LET r == Outcome(focus.a.a, FocusStream)
       IN is_failure(r) /\ len(last_stream(r)) < len(FocusStream)
    /\ ~is_failure(ctl.value)
    /\ len(ctl.value.stream) < len(FocusStream)

(* C6: look_ahead(p) succeeds with p's value and the stream where it        *)
(* started; when p fails, it fails with p's failure unchanged, positioned   *)
(* where p failed.                                                          *)
C6_LookAheadConsumesNothing ==
    (Done /\ focus.k = "look_ahead") =>
        LET s == FocusStream
            r == Outcome(focus.a, s)
        IN IF is_failure(r)
           THEN ctl.value = r
           ELSE ctl.value = Success(r.value, s)

(* p consumed input and succeeded, and the stream is back at s *)
C6_Witness ==
    /\ Done
    /\ focus.k = "look_ahead"
    /\ prog # focus
    /\ LET r == Outcome(focus.a, FocusStream)
       IN ~is_failure(r) /\ len(r.stream) < len(FocusStream)
    /\ ~is_failure(ctl.value)
    /\ ctl.value.stream = FocusStream

(* the error text of run_parser: the messages joined by OR *)
OR == [kind |-> "OR"]
RECURSIVE render_error(_)
render_error(messages) ==
    IF Len(messages) <= 1 THEN messages
    ELSE <<Head(messages), OR>> \o render_error(Tail(messages))

(* the alternatives of a nested choice, in the order they are attempted *)
RECURSIVE Branches(_)
Branches(p) == IF p.k = "or" THEN Branches(p.a) \o Branches(p.b) ELSE <<p>>
RECURSIVE BranchMessages(_, _)
BranchMessages(branches, stream) ==
    IF branches = <<>> THEN <<>>
    ELSE Messages(Outcome(Head(branches), stream))
         \o BranchMessages(Tail(branches), stream)
AllFailAt(branches, stream) ==
    \A i \in DOMAIN branches :
        LET r == Outcome(branches[i], stream)
        IN is_failure(r) /\ AllAt(r, stream)

(* C7: when every branch of a choice, nested either way, fails at the       *)
(* position where the choice started, the failure of the choice carries the *)
(* message of every branch once, in the order the branches were attempted;  *)
(* choice(fail("X"), fail("Y")) fails with X OR Y.                          *)
C7_ErrorAggregation ==
    /\ (Done /\ focus.k = "or" /\ AllFailAt(Branches(focus), FocusStream)) =>
          /\ ctl.value.k = "Failures"
          /\ Messages(ctl.value) = BranchMessages(Branches(focus), FocusStream)
          /\ AllAt(ctl.value, FocusStream)
    /\ (Done /\ focus = Parser_or(fail("X"), fail("Y"))) =>
          /\ is_failure(ctl.value)
          /\ render_error(Messages(ctl.value)) = <<MsgFail("X"), OR, MsgFail("Y")>>

(* three alternatives, the last two nested, all failed where the choice     *)
(* started after one element of the input                                   *)
C7_Witness ==
    /\ Done
    /\ focus.k = "or"
    /\ focus.b.k = "or"
    /\ prog # focus
    /\ AllFailAt(Branches(focus), FocusStream)
    /\ ctl.value.k = "Failures"
    /\ Len(ctl.value.failures) = 3
    /\ ctl.value.failures[1].message # ctl.value.failures[2].message
    /\ ctl.value.failures[2].message # ctl.value.failures[3].message

(* C8: literal(expected) succeeds with expected and the stream advanced by  *)
(* len(expected) when the input starts with expected; otherwise it fails at *)
(* the first element that differs, or at the end of the input, with the     *)
(* end-of-input message, when the input is a proper prefix of expected.     *)
C8_Literal ==
    (Done /\ focus.k = "literal") =>
        LET s == FocusStream
            expected == focus.expected
            text == to_string(s)
            n == CommonPrefix(expected, text)
        IN IF n = Len(expected)
           THEN /\ ctl.value.k = "Success"
                /\ ctl.value.value = expected
                /\ len(ctl.value.stream) = len(s) - Len(expected)
                /\ to_string(ctl.value.stream) = Rest(text, Len(expected))
           ELSE /\ ctl.value.k = "Failure"
                /\ len(ctl.value.stream) = len(s) - n
                /\ to_string(ctl.value.stream) = Rest(text, n)
                /\ IF n = Len(text)
                   THEN /\ ctl.value.message = MsgLiteralEnd(expected)
                        /\ len(ctl.value.stream) = 0
                   ELSE ctl.value.message =
                            MsgLiteralFound(expected, SubSeq(text, 1, n + 1))

(* the input matched the first element of expected and differed afterwards *)
C8_Witness ==
    /\ Done
    /\ focus.k = "literal"
    /\ LET n == CommonPrefix(focus.expected, to_string(FocusStream))
       IN n >= 1 /\ n < Len(focus.expected) /\ n < len(FocusStream)
    /\ ctl.value.k = "Failure"
    /\ len(ctl.value.stream) < len(FocusStream)

(* C9: fmap(f, unit(v)) behaves as unit(f(v)); bind(unit(v), f) behaves as  *)
(* f(v); bind(bind(p, f), g) behaves as bind(p, v -> bind(f(v), g)); a      *)
(* failure of the first parser of a bind is the result, untouched, and no   *)
(* later function is applied.                                               *)
C9_MonadLaws ==
    Done =>
        LET s == FocusStream
        IN /\ (focus.k = "fmap" /\ focus.a.k = "unit") =>
                 ctl.value = Outcome(unit(ApplyMapping(focus.mapping, focus.a.value)), s)
           /\ (focus.k = "bind" /\ focus.a.k = "unit") =>
                 ctl.value = Outcome(ApplyBinding(focus.binding, focus.a.value), s)
           /\ focus.k = "bind" =>
                 LET rp == with_trampoline(focus.a, s)
                 IN is_failure(rp.value) =>
                       ctl.value = rp.value /\ FocusApplied = rp.applied
           /\ (focus.k = "bind" /\ focus.a.k = "bind") =>
                 LET p == focus.a.a
                     f == focus.a.binding
                     g == focus.binding
                     rp == with_trampoline(p, s)
                 IN /\ ctl.value = Outcome(Parser_bind(p, Compose(f, g)), s)
                    /\ ~is_failure(rp.value) =>
                          LET v == rp.value.value
                              rf == with_trampoline(ApplyBinding(f, v), rp.value.stream)
                          IN is_failure(rf.value) =>
                                /\ ctl.value = rf.value
                                /\ FocusApplied =
                                      rp.applied \o <<[binding |-> f, value |-> v]>>
                                      \o rf.applied

(* p consumed input and succeeded, f(v) succeeded, and g(w) failed *)
C9_Witness ==
    /\ Done
    /\ focus.k = "bind"
    /\ focus.a.k = "bind"
    /\ prog # focus
    /\ LET rp == Outcome(focus.a.a, FocusStream)
       IN ~is_failure(rp) /\ len(rp.stream) < len(FocusStream)
    /\ ~is_failure(Outcome(focus.a, FocusStream))
    /\ is_failure(ctl.value)
    /\ Len(FocusApplied) = 2

(* C10: character(n) succeeds with the first n elements and the rest of the *)
(* input when at least n elements remain; otherwise it fails with the       *)
(* end-of-input message at the end of the input.                            *)
C10_Character ==
    (Done /\ focus.k = "character") =>
        LET s == FocusStream
            n == focus.n
            text == to_string(s)
        IN IF Len(text) >= n
           THEN /\ ctl.value.k = "Success"
                /\ ctl.value.value = SubSeq(text, 1, n)
                /\ len(ctl.value.stream) = len(s) - n
                /\ to_string(ctl.value.stream) = Rest(text, n)
           ELSE /\ ctl.value.k = "Failure"
                /\ ctl.value.message = MsgCharacterEnd
                /\ len(ctl.value.stream) = 0
                /\ to_string(ctl.value.stream) = <<>>

(* fewer than n elements remained, and some were consumed before the end *)
C10_Witness ==
    /\ Done
    /\ focus.k = "character"
    /\ len(FocusStream) >= 1
    /\ len(FocusStream) < focus.n
    /\ ctl.value.k = "Failure"
    /\ len(ctl.value.stream) = 0

(* C2: every invocation made by the trampoline loop returns a deferred Call *)
(* or the final Result without another parser function or continuation      *)
(* being on the native stack, whatever the length of the chain of binds or  *)
(* alternatives and of the input, and the loop reaches a final value.       *)
C2_StackSafety ==
    /\ [](maxDepth <= 1 /\ ctl.k \in {"CallP", "CallK", "Result"})
    /\ <>Done

(* the longest chain of binds ran to its value over the longest input *)
C2_Witness ==
    /\ Done
    /\ focus = BindLeft(MaxChain)
    /\ Len(doc) = MaxChain + 1
    /\ prog = focus
    /\ ~is_failure(ctl.value)
    /\ len(ctl.value.stream) = 0
    /\ Len(applied) = MaxChain
    /\ maxDepth = 1

====
